---- MODULE Spec2Model ----
(***************************************************************************)
(* Model of .github/ai_Complete.py: two calls of get_ai_suggestion (read a *)
(* report file, POST it as a prompt, extract "result" from the JSON        *)
(* answer), then the write of .github/ai_comment.md.                       *)
(*                                                                         *)
(* Text is a sequence of tokens.  A token is one character of variable     *)
(* text ("a", "\r", "\n", "x") or one whole fixed string literal of the    *)
(* program (the literals are Chinese text; each is one ASCII token here).  *)
(* Two texts are byte-identical iff the sequences are equal.               *)
(***************************************************************************)
EXTENDS Integers, Sequences, FiniteSets, TLC

VARIABLES
    files,          \* files[i]: bytes of the file named by sys.argv[i], or Unreadable
    out,            \* .github/ai_comment.md on disk
    out0,           \* .github/ai_comment.md as it was when the run started
    pc,             \* position of the interpreter
    stmt,           \* the calling statement (12 or 13) of the active call, 0 if none
    report_file,    \* get_ai_suggestion: parameter (index into sys.argv), 0 if none
    content,        \* get_ai_suggestion: local content
    payload,        \* get_ai_suggestion: local payload
    resp,           \* get_ai_suggestion: local resp
    result,         \* get_ai_suggestion: local result
    lint_suggest,   \* module global
    format_suggest, \* module global
    f,              \* the open output file object: [open, buf]
    exc,            \* an exception is propagating out of the with block
    exitcode,       \* process exit status, NoExit while running
    reads,          \* history: argv indexes whose open() was attempted, in order
    posts,          \* history: requests handed to the network, in order
    resps,          \* history: resps[i] the outcome of the POST made for argv[i]
    opens,          \* history: number of times the output file was opened
    run,            \* number of the current run of the program
    prev            \* what the previous run got and left: [resps, out]

vars == <<files, out, out0, pc, stmt, report_file, content, payload, resp, result,
          lint_suggest, format_suggest, f, exc, exitcode, reads, posts, resps,
          opens, run, prev>>

locals == <<report_file, content, payload, resp, result>>
globals == <<lint_suggest, format_suggest>>
history == <<reads, posts, resps, opens>>
world == <<files, out0, run, prev>>

----------------------------------------------------------------------------
(* Bounds *)

MaxLen == 2         \* longest report file, in characters
MaxResLen == 1      \* longest "result" string, in characters
MaxRuns == 2        \* runs of the program in a row (SpecRerun)

(* Program constants *)

MaxTokens == 256    \* "max_tokens": 256
FirstCall == 12     \* the statement lint_suggest = get_ai_suggestion(sys.argv[1])
SecondCall == 13    \* the statement format_suggest = get_ai_suggestion(sys.argv[2])

----------------------------------------------------------------------------
(* Text *)

NL == "\n"
CR == "\r"

SeqsUpTo(S, n) == UNION {[1..k -> S] : k \in 0..n}

FileChars == {"a", CR, NL}
FileContents == SeqsUpTo(FileChars, MaxLen)
Unreadable == <<"<unreadable>">>   \* open() or read() raises (missing, denied, undecodable)
FileStates == FileContents \cup {Unreadable}

\* open(report_file, "r"): newline=None, so "\r\n" and a lone "\r" are read as "\n"
RECURSIVE UniversalNewlines(_)
UniversalNewlines(raw) ==
    IF raw = <<>> THEN <<>>
    ELSE IF raw[1] = CR
         THEN IF Len(raw) >= 2 /\ raw[2] = NL
              THEN <<NL>> \o UniversalNewlines(SubSeq(raw, 3, Len(raw)))
              ELSE <<NL>> \o UniversalNewlines(Tail(raw))
         ELSE <<raw[1]>> \o UniversalNewlines(Tail(raw))

\* the f-string literal before {content}: the instruction text and "\n"
Prefix == <<"[please complete and optimize the following code issue:]">>
\* (variant: the "\n" of the literal left out)
PromptNoNewline(c) == Prefix \o c

Prompt(c) == Prefix \o <<NL>> \o c

Payload(c) == [prompt |-> Prompt(c), max_tokens |-> MaxTokens]
NoPayload == [prompt |-> <<>>, max_tokens |-> 0]

\* the literals of the five f.write calls
Title == <<"[### AI code review and completion suggestions]", NL>>
LintLabel == <<"[**Lint analysis suggestions:**]", NL>>
FormatLabel == <<"[**Formatting analysis and completion:**]", NL>>
Separator == <<NL, NL>>

----------------------------------------------------------------------------
(* Python and JSON values *)

JStr(s) == [t |-> "str", v |-> s]
JNull == [t |-> "null", v |-> <<>>]
JNum == [t |-> "num", v |-> <<"7">>]
Unset == [t |-> "unset", v |-> <<>>]

ResultStrings == SeqsUpTo({"x"}, MaxResLen)
ResultValues == {JStr(s) : s \in ResultStrings} \cup {JNull, JNum}

\* what the server's body can be
NotJson == [kind |-> "notjson", has |-> FALSE, result |-> JNull]
JsonArray == [kind |-> "array", has |-> FALSE, result |-> JNull]
ObjNoResult == [kind |-> "object", has |-> FALSE, result |-> JNull]
ObjResult(r) == [kind |-> "object", has |-> TRUE, result |-> r]
Bodies == {NotJson, JsonArray, ObjNoResult} \cup {ObjResult(r) : r \in ResultValues}

Statuses == {200, 500}
Answer(s, b) == [net |-> "answered", status |-> s, body |-> b]
Answers == {Answer(s, b) : s \in Statuses, b \in Bodies}
Refused == [net |-> "refused", status |-> 0, body |-> NotJson]
Hung == [net |-> "hung", status |-> 0, body |-> NotJson]
NoResp == [net |-> "none", status |-> 0, body |-> NotJson]

\* resp.json().get("result", "")
\* (variant: .get("result"), no default)
GetNoDefault(body) == IF body.has THEN body.result ELSE JNull

Get(body) == IF body.has THEN body.result ELSE JStr(<<>>)

\* the output file: whether it exists, its bytes, whether open(..., 'w') can succeed
Absent == [exists |-> FALSE, data |-> <<>>, writable |-> TRUE]
OnDisk(d) == [exists |-> TRUE, data |-> d, writable |-> TRUE]
ReadOnly(d) == [exists |-> TRUE, data |-> d, writable |-> FALSE]
OldComment == <<"[an earlier comment]", NL>>
Closed == [open |-> FALSE, buf |-> <<>>]

NoExit == -1
NoPrev == [resps |-> <<NoResp, NoResp>>, out |-> Absent]

----------------------------------------------------------------------------
(* Initial states *)

InitRun ==
    /\ pc = "l12"
    /\ stmt = 0
    /\ report_file = 0
    /\ content = <<>>
    /\ payload = NoPayload
    /\ resp = NoResp
    /\ result = Unset
    /\ lint_suggest = Unset
    /\ format_suggest = Unset
    /\ f = Closed
    /\ exc = FALSE
    /\ exitcode = NoExit
    /\ reads = <<>>
    /\ posts = <<>>
    /\ resps = <<NoResp, NoResp>>
    /\ opens = 0

OutStates == {Absent, OnDisk(OldComment), ReadOnly(OldComment)}

Init ==
    /\ files \in [1..2 -> FileStates]
    /\ out \in OutStates
    /\ out0 = out
    /\ run = 1
    /\ prev = NoPrev
    /\ InitRun

\* the report files of the runs made in a row
RerunFiles == {<<"a">>, Unreadable}

InitRerun ==
    /\ files \in [1..2 -> RerunFiles]
    /\ out \in OutStates
    /\ out0 = out
    /\ run = 1
    /\ prev = NoPrev
    /\ InitRun

----------------------------------------------------------------------------
(* Steps *)

\* an exception that nothing catches: traceback, exit status 1
Uncaught ==
    /\ pc' = "exited"
    /\ exitcode' = 1

\* (variant: the first call made on sys.argv[2])
Call12Swapped ==
    /\ pc = "l12"
    /\ pc' = "l5"
    /\ stmt' = FirstCall
    /\ report_file' = 2
    /\ UNCHANGED <<content, payload, resp, result, globals, f, exc, exitcode,
                   out, history, world>>

\* line 12: lint_suggest = get_ai_suggestion(sys.argv[1])   (the call)
Call12 ==
    /\ pc = "l12"
    /\ pc' = "l5"
    /\ stmt' = FirstCall
    /\ report_file' = 1
    /\ UNCHANGED <<content, payload, resp, result, globals, f, exc, exitcode,
                   out, history, world>>

\* line 13: format_suggest = get_ai_suggestion(sys.argv[2])   (the call)
Call13 ==
    /\ pc = "l13"
    /\ pc' = "l5"
    /\ stmt' = SecondCall
    /\ report_file' = 2
    /\ UNCHANGED <<content, payload, resp, result, globals, f, exc, exitcode,
                   out, history, world>>

\* lines 5-6: with open(report_file, "r") as f: content = f.read()
ReadReport ==
    /\ pc = "l5"
    /\ files[report_file] # Unreadable
    /\ content' = UniversalNewlines(files[report_file])
    /\ reads' = Append(reads, report_file)
    /\ pc' = "l7"
    /\ UNCHANGED <<stmt, report_file, payload, resp, result, globals, f, exc,
                   exitcode, out, posts, resps, opens, world>>

\* (variant: the error caught and the report taken as empty)
ReadReportFailsSwallowed ==
    /\ pc = "l5"
    /\ files[report_file] = Unreadable
    /\ content' = <<>>
    /\ reads' = Append(reads, report_file)
    /\ pc' = "l7"
    /\ UNCHANGED <<stmt, report_file, payload, resp, result, globals, f, exc,
                   exitcode, out, posts, resps, opens, world>>

\* lines 5-6 raising (FileNotFoundError, PermissionError, UnicodeDecodeError)
ReadReportFails ==
    /\ pc = "l5"
    /\ files[report_file] = Unreadable
    /\ reads' = Append(reads, report_file)
    /\ Uncaught
    /\ UNCHANGED <<stmt, report_file, content, payload, resp, result, globals, f,
                   exc, out, posts, resps, opens, world>>

\* line 7: payload = {"prompt": f"...\n{content}", "max_tokens": 256}
BuildPayload ==
    /\ pc = "l7"
    /\ payload' = Payload(content)
    /\ pc' = "l8"
    /\ UNCHANGED <<stmt, report_file, content, resp, result, globals, f, exc,
                   exitcode, out, history, world>>

\* line 8: requests.post(api_url, json=payload), the request leaving
Post ==
    /\ pc = "l8"
    /\ posts' = Append(posts, [file |-> report_file, body |-> payload])
    /\ pc' = "await"
    /\ UNCHANGED <<stmt, report_file, content, payload, resp, result, globals, f,
                   exc, exitcode, out, reads, resps, opens, world>>

\* line 8: requests.post raises ConnectionError
PostRefused ==
    /\ pc = "await"
    /\ resps' = [resps EXCEPT ![report_file] = Refused]
    /\ Uncaught
    /\ UNCHANGED <<stmt, report_file, content, payload, resp, result, globals, f,
                   exc, out, reads, posts, opens, world>>

\* line 8: no timeout is passed, the call blocks for ever
PostHangs ==
    /\ pc = "await"
    /\ resps' = [resps EXCEPT ![report_file] = Hung]
    /\ pc' = "hung"
    /\ UNCHANGED <<stmt, report_file, content, payload, resp, result, globals, f,
                   exc, exitcode, out, reads, posts, opens, world>>

\* line 8: resp = the server's answer, whatever its status
PostAnswered ==
    /\ pc = "await"
    /\ \E a \in Answers :
          /\ resp' = a
          /\ resps' = [resps EXCEPT ![report_file] = a]
    /\ pc' = "l9"
    /\ UNCHANGED <<stmt, report_file, content, payload, result, globals, f, exc,
                   exitcode, out, reads, posts, opens, world>>

\* line 9: result = resp.json().get("result", "")
Extract ==
    /\ pc = "l9"
    /\ resp.body.kind = "object"
    /\ result' = Get(resp.body)
    /\ pc' = "l10"
    /\ UNCHANGED <<stmt, report_file, content, payload, resp, globals, f, exc,
                   exitcode, out, history, world>>

\* (variant: the error caught and "" returned)
ExtractFailsSwallowed ==
    /\ pc = "l9"
    /\ resp.body.kind # "object"
    /\ result' = JStr(<<>>)
    /\ pc' = "l10"
    /\ UNCHANGED <<stmt, report_file, content, payload, resp, globals, f, exc,
                   exitcode, out, history, world>>

\* line 9 raising: json() on a body that is no JSON, .get on a value that is no dict
ExtractFails ==
    /\ pc = "l9"
    /\ resp.body.kind # "object"
    /\ Uncaught
    /\ UNCHANGED <<stmt, report_file, content, payload, resp, result, globals, f,
                   exc, out, history, world>>

\* line 10 and the assignment of line 12: lint_suggest = the returned value
Return12 ==
    /\ pc = "l10"
    /\ stmt = FirstCall
    /\ lint_suggest' = result
    /\ pc' = "l13"
    /\ stmt' = 0
    /\ report_file' = 0
    /\ content' = <<>>
    /\ payload' = NoPayload
    /\ resp' = NoResp
    /\ result' = Unset
    /\ UNCHANGED <<format_suggest, f, exc, exitcode, out, history, world>>

\* line 10 and the assignment of line 13: format_suggest = the returned value
Return13 ==
    /\ pc = "l10"
    /\ stmt = SecondCall
    /\ format_suggest' = result
    /\ pc' = "l15"
    /\ stmt' = 0
    /\ report_file' = 0
    /\ content' = <<>>
    /\ payload' = NoPayload
    /\ resp' = NoResp
    /\ result' = Unset
    /\ UNCHANGED <<lint_suggest, f, exc, exitcode, out, history, world>>

\* (variant: mode 'a', the file is not truncated)
OpenOutputAppend ==
    /\ pc = "l15"
    /\ out.writable
    /\ out' = OnDisk(out.data)
    /\ f' = [open |-> TRUE, buf |-> <<>>]
    /\ opens' = opens + 1
    /\ pc' = "l16"
    /\ UNCHANGED <<stmt, locals, globals, exc, exitcode, reads, posts, resps, world>>

\* line 15: open('.github/ai_comment.md', 'w') creates or truncates the file
OpenOutput ==
    /\ pc = "l15"
    /\ out.writable
    /\ out' = OnDisk(<<>>)
    /\ f' = [open |-> TRUE, buf |-> <<>>]
    /\ opens' = opens + 1
    /\ pc' = "l16"
    /\ UNCHANGED <<stmt, locals, globals, exc, exitcode, reads, posts, resps, world>>

\* line 15 raising (no .github directory, no permission)
OpenOutputFails ==
    /\ pc = "l15"
    /\ ~out.writable
    /\ Uncaught
    /\ UNCHANGED <<stmt, locals, globals, f, exc, out, history, world>>

\* f.write(text) of a str: buffered; on a POSIX system (os.linesep = "\n") text mode
\* writes every character as it is
WriteStep(from, text, to) ==
    /\ pc = from
    /\ f' = [f EXCEPT !.buf = f.buf \o text]
    /\ pc' = to
    /\ UNCHANGED <<stmt, locals, globals, exc, exitcode, out, history, world>>

\* a TypeError inside the with block: control goes to the file's __exit__
RaiseInWith(from) ==
    /\ pc = from
    /\ exc' = TRUE
    /\ pc' = "close"
    /\ UNCHANGED <<stmt, locals, globals, f, exitcode, out, history, world>>

\* line 16
Write16 == WriteStep("l16", Title, "l17")

\* line 17
Write17 == WriteStep("l17", LintLabel, "l18")

\* (variant: the two suggestions swapped)
Write18Swapped ==
    /\ format_suggest.t = "str"
    /\ WriteStep("l18", format_suggest.v \o Separator, "l19")

\* line 18: f.write(lint_suggest + "\n\n")
Write18 ==
    /\ lint_suggest.t = "str"
    /\ WriteStep("l18", lint_suggest.v \o Separator, "l19")

\* line 18 raising: lint_suggest + "\n\n" where lint_suggest is no str
Write18Fails ==
    /\ lint_suggest.t # "str"
    /\ RaiseInWith("l18")

\* line 19
Write19 == WriteStep("l19", FormatLabel, "l20")

\* line 20: f.write(format_suggest)
Write20 ==
    /\ format_suggest.t = "str"
    /\ WriteStep("l20", format_suggest.v, "close")

\* line 20 raising: write() argument must be str
Write20Fails ==
    /\ format_suggest.t # "str"
    /\ RaiseInWith("l20")

\* end of the with block: the file is flushed and closed, then the process ends
CloseOutput ==
    /\ pc = "close"
    /\ out' = OnDisk(out.data \o f.buf)
    /\ f' = Closed
    /\ pc' = "exited"
    /\ exitcode' = IF exc THEN 1 ELSE 0
    /\ UNCHANGED <<stmt, locals, globals, exc, history, world>>

Next ==
    \/ Call12 \/ Call13
    \/ ReadReport \/ ReadReportFails
    \/ BuildPayload
    \/ Post \/ PostRefused \/ PostHangs \/ PostAnswered
    \/ Extract \/ ExtractFails
    \/ Return12 \/ Return13
    \/ OpenOutput \/ OpenOutputFails
    \/ Write16 \/ Write17 \/ Write18 \/ Write18Fails
    \/ Write19 \/ Write20 \/ Write20Fails
    \/ CloseOutput

Spec == Init /\ [][Next]_vars

\* the program is started again, on the same report files, once a run has ended
Rerun ==
    /\ pc = "exited"
    /\ run < MaxRuns
    /\ run' = run + 1
    /\ prev' = [resps |-> resps, out |-> out]
    /\ out0' = out
    /\ pc' = "l12"
    /\ stmt' = 0
    /\ report_file' = 0
    /\ content' = <<>>
    /\ payload' = NoPayload
    /\ resp' = NoResp
    /\ result' = Unset
    /\ lint_suggest' = Unset
    /\ format_suggest' = Unset
    /\ f' = Closed
    /\ exc' = FALSE
    /\ exitcode' = NoExit
    /\ reads' = <<>>
    /\ posts' = <<>>
    /\ resps' = <<NoResp, NoResp>>
    /\ opens' = 0
    /\ UNCHANGED <<files, out>>

NextRerun == Next \/ Rerun

SpecRerun == InitRerun /\ [][NextRerun]_vars

----------------------------------------------------------------------------
(* Vocabulary of the properties *)

Exited == pc = "exited"
Succeeded == Exited /\ exitcode = 0
PostsFor(i) == {k \in DOMAIN posts : posts[k].file = i}
ReadTried(i) == \E k \in DOMAIN reads : reads[k] = i

\* an HTTP call that failed: connection refused, a non-2xx status, a body that is no JSON
HttpFailed(o) ==
    \/ o.net = "refused"
    \/ o.net = "answered" /\ (o.status \notin 200..299 \/ o.body.kind = "notjson")

\* a fetch that raised: the report could not be read, the connection was refused,
\* or the body could not be parsed into an object
FetchRaised(i) ==
    \/ ReadTried(i) /\ files[i] = Unreadable
    \/ resps[i].net = "refused"
    \/ resps[i].net = "answered" /\ resps[i].body.kind # "object"

NoResultKey(o) == o.net = "answered" /\ o.body.kind = "object" /\ ~o.body.has
ResultText(o) == IF o.body.has THEN o.body.result.v ELSE <<>>

\* the complete comment holding the suggestions s1 and s2
Document(s1, s2) == Title \o LintLabel \o s1 \o <<NL, NL>> \o FormatLabel \o s2

\* d has the shape of a complete comment, whatever the two suggestions are
IsComplete(d) ==
    \E n \in 0..Len(d) :
        /\ Len(d) >= 8 + n
        /\ SubSeq(d, 1, 4) = Title \o LintLabel
        /\ SubSeq(d, 5 + n, 8 + n) = <<NL, NL>> \o FormatLabel

StartsWith(d, p) == Len(d) >= Len(p) /\ SubSeq(d, 1, Len(p)) = p
EndsWith(d, p) == Len(d) >= Len(p) /\ SubSeq(d, Len(d) - Len(p) + 1, Len(d)) = p

----------------------------------------------------------------------------
(* C1: if either HTTP call fails (connection refused, a non-2xx status whatever
   the body, or a body that is no JSON), the run ends with a non-zero exit code
   and the output file is exactly as it was before the run. *)
C1_FailedCallLeavesOutputUntouched ==
    (Exited /\ \E i \in 1..2 : HttpFailed(resps[i]))
        => (exitcode # 0 /\ out = out0)

(* C2: a run that completes without error exits with code 0 and leaves the title
   line, the lint label, the result of the answer to the POST made for the first
   file, a blank separator, the format label and the result of the answer to the
   POST made for the second file, in this order. *)
C2_SuccessfulRunWritesBothSuggestions ==
    /\ Succeeded =>
          /\ Len(posts) = 2
          /\ posts[1] = [file |-> 1, body |-> Payload(UniversalNewlines(files[1]))]
          /\ posts[2] = [file |-> 2, body |-> Payload(UniversalNewlines(files[2]))]
          /\ \A i \in 1..2 : resps[i].net = "answered" /\ resps[i].body.kind = "object"
          /\ out.exists
          /\ out.data = Document(ResultText(resps[1]), ResultText(resps[2]))
    /\ (Exited /\ exitcode # 0) =>
          \/ \E i \in 1..2 : FetchRaised(i)
          \/ ~out.writable
          \/ lint_suggest.t # "str"
          \/ format_suggest.t # "str"

C2_Witness ==
    /\ Succeeded
    /\ ResultText(resps[1]) = <<"x">>
    /\ ResultText(resps[2]) = <<>>
    /\ resps[2].body.has
    /\ files[1] # files[2]

(* C3: the output file is opened only after both fetches have returned; in a run
   in which a fetch fails (unreadable report, refused connection, unparseable
   body) it is never opened and the file on disk keeps what it held. *)
C3_OutputOpenedOnlyAfterBothFetches ==
    /\ (opens > 0 \/ f.open) => (lint_suggest # Unset /\ format_suggest # Unset)
    /\ (\E i \in 1..2 : FetchRaised(i)) =>
          (opens = 0 /\ ~f.open /\ out = out0)

C3_Witness ==
    /\ Exited
    /\ out0.exists
    /\ lint_suggest = JStr(<<"x">>)
    /\ resps[2].net = "answered"
    /\ resps[2].body.kind = "notjson"

(* C4: an answer that is a JSON object without "result" is no error: the fetch
   returns the empty string, the run goes on to the other fetch and to the
   write, and the label of that section is written with an empty suggestion. *)
C4_MissingResultIsEmptySuggestion ==
    /\ (pc = "l10" /\ NoResultKey(resp)) => result = JStr(<<>>)
    /\ NoResultKey(resps[1]) =>
          /\ pc \notin {"await", "l9", "l10"} => lint_suggest = JStr(<<>>)
          /\ Exited => ReadTried(2)
          /\ (Exited /\ opens > 0) =>
                StartsWith(out.data, Title \o LintLabel \o <<NL, NL>>)
    /\ NoResultKey(resps[2]) =>
          /\ pc \notin {"await", "l9", "l10"} => format_suggest = JStr(<<>>)
          /\ (Exited /\ out.writable) => opens > 0
          /\ Succeeded => EndsWith(out.data, <<NL, NL>> \o FormatLabel)

C4_Witness ==
    /\ Succeeded
    /\ NoResultKey(resps[1])
    /\ NoResultKey(resps[2])
    /\ out.data = Document(<<>>, <<>>)

(* C5 as stated: a report that cannot be read is fatal before any POST for it:
   no POST at all if the lint report cannot be read, exactly one POST (the lint
   one) and none for the format report if the format report cannot be read;
   the exit code is non-zero. *)
C5_UnreadableReportCountsAsStated ==
    Exited =>
        /\ files[1] = Unreadable => (Len(posts) = 0 /\ exitcode # 0)
        /\ files[2] = Unreadable =>
              (Len(posts) = 1 /\ PostsFor(2) = {} /\ exitcode # 0)

(* C5 amended: no POST is ever made for a report that cannot be read; a run
   ends with a non-zero exit code and no POST at all if the lint report cannot
   be read, and with a non-zero exit code and exactly one POST, the lint one, if
   the lint report can be read and the format report cannot. *)
C5_UnreadableReportAborts ==
    /\ \A i \in 1..2 : files[i] = Unreadable => PostsFor(i) = {}
    /\ files[1] = Unreadable => Len(posts) = 0
    /\ (files[2] = Unreadable /\ ReadTried(2)) => (Exited /\ exitcode # 0)
    /\ Exited =>
          /\ files[1] = Unreadable => exitcode # 0
          /\ (files[1] # Unreadable /\ files[2] = Unreadable) =>
                (Len(posts) = 1 /\ posts[1].file = 1 /\ exitcode # 0)

C5_Witness ==
    /\ Exited
    /\ files[1] # Unreadable
    /\ files[2] = Unreadable
    /\ ReadTried(2)
    /\ lint_suggest = JStr(<<"x">>)

(* C6: every fetch makes exactly one POST and nothing is retried: at most two
   POSTs in a run, at most one per report file, exactly two in a successful
   run, and no POST after a POST that failed. *)
C6_OnePostPerFetchNoneAfterFailure ==
    /\ Len(posts) <= 2
    /\ \A i \in 1..2 : Cardinality(PostsFor(i)) <= 1
    /\ Succeeded => Len(posts) = 2
    /\ \A k \in DOMAIN posts :
          (HttpFailed(resps[posts[k].file]) \/ resps[posts[k].file].net = "hung")
              => k = Len(posts)

(* C7: two runs in a row on the same report files whose POSTs get the same
   answers leave byte-identical output files; a run that writes leaves only
   its own document, nothing of what the file held before. *)
C7_RunTwiceSameOutput ==
    /\ (run > 1 /\ Exited /\ resps = prev.resps) => out = prev.out
    /\ (Exited /\ opens > 0 /\ ~exc) =>
          out.data = Document(lint_suggest.v, format_suggest.v)

C7_Witness ==
    /\ run > 1
    /\ Succeeded
    /\ resps = prev.resps
    /\ out0.exists
    /\ out0.data # <<>>
    /\ out = prev.out

(* C8 as stated: the prompt of every POST is the fixed prefix, one newline and
   the bytes of the report file verbatim, and max_tokens is 256. *)
C8_PromptIsFileVerbatim ==
    \A k \in DOMAIN posts :
        posts[k].body = [prompt |-> Prefix \o <<NL>> \o files[posts[k].file],
                         max_tokens |-> 256]

(* C8 amended: the prompt of every POST is the fixed prefix, one newline and the
   report file's text as text-mode reading gives it, that is with every "\r\n"
   and every other "\r" turned into "\n", hence verbatim for a file without
   "\r" (the empty file included); max_tokens is 256. *)
C8_PromptIsFileAsText ==
    \A k \in DOMAIN posts :
        LET raw == files[posts[k].file] IN
        /\ posts[k].body.max_tokens = 256
        /\ posts[k].body.prompt = Prefix \o <<NL>> \o UniversalNewlines(raw)
        /\ (\A j \in DOMAIN raw : raw[j] # CR) =>
              posts[k].body.prompt = Prefix \o <<NL>> \o raw
        /\ \A j \in DOMAIN posts[k].body.prompt : posts[k].body.prompt[j] # CR

C8_Witness ==
    /\ Len(posts) = 2
    /\ files[1] = <<>>
    /\ files[2] = <<CR, NL>>
    /\ posts[1].body.prompt = Prefix \o <<NL>>
    /\ posts[2].body.prompt = Prefix \o <<NL, NL>>

(* C9: the fetches are sequential, lint first: the format report is not read
   and the format POST is not made before the lint answer has been received
   and its result extracted and returned; at most one POST is unanswered. *)
C9_LintFetchEndsBeforeFormatFetchStarts ==
    /\ (ReadTried(2) \/ PostsFor(2) # {} \/ report_file = 2) =>
          /\ lint_suggest # Unset
          /\ resps[1].net = "answered"
          /\ Len(posts) >= 1
          /\ posts[1].file = 1
    /\ \A k \in DOMAIN posts : posts[k].file = k
    /\ Cardinality({k \in DOMAIN posts : resps[posts[k].file].net = "none"}) <= 1
    /\ \A k \in DOMAIN reads : reads[k] = k

C9_Witness ==
    /\ pc = "await"
    /\ report_file = 2
    /\ Len(posts) = 2
    /\ lint_suggest = JStr(<<"x">>)

(* C10: once the process has ended, the output file is either exactly as it was
   before the run or holds the complete document, whatever the type of the
   values under "result". *)
C10_OutputAllOrNothing ==
    Exited => (out = out0 \/ (out.exists /\ IsComplete(out.data)))

====
